---- MODULE Spec2Model ----
(***************************************************************************)
(* Model of parrot-xxiv/demo-go: the interactive menu loop (src/main.go    *)
(* and the first listing of src/unnamed/part_000) and the password         *)
(* validation pipeline of src/unnamed/part_000 (validators, validatePass-  *)
(* word and the password prompt loop of its main).                         *)
(*                                                                         *)
(* A Go string is a sequence of bytes holding UTF-8.  The model keeps the  *)
(* variable password as that byte sequence; what was typed is a sequence   *)
(* of code points, encoded by Bytes and decoded again by Runes.            *)
(***************************************************************************)
EXTENDS Integers, Sequences, FiniteSets, TLC

VARIABLES pc, password, validators, errors, invoked, out,
          variant, x, choices, trace

vars == <<pc, password, validators, errors, invoked, out,
          variant, x, choices, trace>>

(***************************************************************************)
(* Bounds of the model.                                                    *)
(***************************************************************************)
MaxLen == 2
MaxRun == 9
MaxValidators == 2
MaxPermLen == 0
MaxChoices == 3

(***************************************************************************)
(* Strings: UTF-8 encoding and decoding.                                   *)
(***************************************************************************)
\* The UTF-8 encoding of one code point (how Go stores it in a string).
Utf8(c) ==
    IF c < 128 THEN <<c>>
    ELSE IF c < 2048 THEN <<192 + (c \div 64), 128 + (c % 64)>>
    ELSE IF c < 65536 THEN
        <<224 + (c \div 4096), 128 + ((c \div 64) % 64), 128 + (c % 64)>>
    ELSE <<240 + (c \div 262144), 128 + ((c \div 4096) % 64),
           128 + ((c \div 64) % 64), 128 + (c % 64)>>

\* The Go string holding the code points cps.
RECURSIVE Bytes(_)
Bytes(cps) ==
    IF cps = <<>> THEN <<>> ELSE Utf8(Head(cps)) \o Bytes(Tail(cps))

IsCont(b) == b >= 128 /\ b < 192

\* The first rune of a non-empty byte string and its width, as `range` over
\* a string decodes it (an invalid sequence yields U+FFFD, width 1).
DecodeRune(b) ==
    LET b1 == b[1]
        n == Len(b)
    IN  IF b1 < 128 THEN [rune |-> b1, width |-> 1]
        ELSE IF b1 >= 192 /\ b1 < 224 /\ n >= 2 /\ IsCont(b[2]) THEN
            [rune |-> (b1 - 192) * 64 + (b[2] - 128), width |-> 2]
        ELSE IF b1 >= 224 /\ b1 < 240 /\ n >= 3 /\ IsCont(b[2]) /\ IsCont(b[3]) THEN
            [rune |-> (b1 - 224) * 4096 + (b[2] - 128) * 64 + (b[3] - 128),
             width |-> 3]
        ELSE IF b1 >= 240 /\ b1 < 248 /\ n >= 4
                /\ IsCont(b[2]) /\ IsCont(b[3]) /\ IsCont(b[4]) THEN
            [rune |-> (b1 - 240) * 262144 + (b[2] - 128) * 4096
                      + (b[3] - 128) * 64 + (b[4] - 128),
             width |-> 4]
        ELSE [rune |-> 65533, width |-> 1]

\* The runes `for _, c := range s` visits, in order.
RECURSIVE Runes(_)
Runes(b) ==
    IF b = <<>> THEN <<>>
    ELSE LET d == DecodeRune(b)
         IN  <<d.rune>> \o Runes(SubSeq(b, d.width + 1, Len(b)))

\* s[i] with Go's 0-based index.
At(s, i) == s[i + 1]

(***************************************************************************)
(* Character classes.                                                      *)
(***************************************************************************)
\* unicode.IsUpper on the code points of the model: Latin-1 and Deseret.
IsUpper(c) ==
    \/ c >= 65 /\ c <= 90
    \/ c >= 192 /\ c <= 214
    \/ c >= 216 /\ c <= 222
    \/ c >= 66560 /\ c <= 66599

\* unicode.IsDigit on the code points of the model: ASCII and Arabic-Indic.
IsDigit(c) ==
    \/ c >= 48 /\ c <= 57
    \/ c >= 1632 /\ c <= 1641

\* The class [!@#$%^&*(),.?":{}|<>] of the regular expression.
SpecialChars ==
    {33, 64, 35, 36, 37, 94, 38, 42, 40, 41, 44, 46, 63, 34, 58, 123, 125,
     124, 60, 62}

(***************************************************************************)
(* The diagnostics.                                                        *)
(***************************************************************************)
LengthMsg == "Password must be at least 8 characters long."
UppercaseMsg == "Password must contain at least one uppercase letter."
SpecialCharMsg == "Password must include at least one special character."
DigitMsg == "Password must contain at least one digit."
SpaceMsg == "Password must not contain spaces."
CommonMsg == "Password is too common."
RepeatingMsg == "Password must not have more than 2 repeated characters in a row."
ValidMsg == "Password is valid!"

(***************************************************************************)
(* String literals, as code points.                                        *)
(***************************************************************************)
Lit_password == <<112, 97, 115, 115, 119, 111, 114, 100>>
Lit_123456 == <<49, 50, 51, 52, 53, 54>>
Lit_qwerty == <<113, 119, 101, 114, 116, 121>>
Lit_letmein == <<108, 101, 116, 109, 101, 105, 110>>
Lit_welcome == <<119, 101, 108, 99, 111, 109, 101>>
Lit_admin == <<97, 100, 109, 105, 110>>
Lit_abc123 == <<97, 98, 99, 49, 50, 51>>
Lit_password123 == Lit_password \o <<49, 50, 51>>
Lit_Password123Bang == <<80, 97, 115, 115, 119, 111, 114, 100, 49, 50, 51, 33>>
Lit_aaa == <<97, 97, 97>>
Lit_short == <<115, 104, 111, 114, 116>>
Lit_longenough == <<108, 111, 110, 103, 101, 110, 111, 117, 103, 104>>
\* "Pass word123!": passes everything but the space rule.
Lit_PassSpace == <<80, 97, 115, 115, 32, 119, 111, 114, 100, 49, 50, 51, 33>>
\* "Paaassword1!": passes everything but the repeat rule.
Lit_Paaassword == <<80, 97, 97, 97, 115, 115, 119, 111, 114, 100, 49, 33>>
\* U+00E9 three times: one two-byte character, repeated.
Lit_eee == <<233, 233, 233>>
\* U+10410 alone: one character whose encoding is F0 90 90 90.
Lit_Deseret == <<66576>>

commonPasswords ==
    <<Lit_password, Lit_123456, Lit_qwerty, Lit_letmein, Lit_welcome,
      Lit_admin, Lit_abc123>>

(***************************************************************************)
(* The validators (part_000 lines 79-138; 297-356 repeat them verbatim).   *)
(***************************************************************************)
MinLength == 8
MinLengthOfCheckLength == 5

lengthValidatorInclusive(s) == IF Len(s) <= MinLength THEN LengthMsg ELSE ""

lengthValidatorFive(s) ==
    IF Len(s) < MinLengthOfCheckLength THEN LengthMsg ELSE ""

lengthValidator(s) == IF Len(s) < MinLength THEN LengthMsg ELSE ""

uppercaseValidator(s) ==
    LET rs == Runes(s)
    IN  IF \E i \in DOMAIN rs : IsUpper(rs[i]) THEN "" ELSE UppercaseMsg

\* regexp.MatchString: some rune of s is in the class.
specialCharValidator(s) ==
    LET rs == Runes(s)
    IN  IF ~ \E i \in DOMAIN rs : rs[i] \in SpecialChars
        THEN SpecialCharMsg ELSE ""

digitValidator(s) ==
    LET rs == Runes(s)
    IN  IF \E i \in DOMAIN rs : IsDigit(rs[i]) THEN "" ELSE DigitMsg

\* strings.Contains(password, " "): the byte 0x20 occurs.
spaceValidator(s) ==
    IF \E i \in DOMAIN s : s[i] = 32 THEN SpaceMsg ELSE ""

HasPrefix(s, p) == Len(s) >= Len(p) /\ SubSeq(s, 1, Len(p)) = p

commonPasswordValidatorPrefix(s) ==
    IF \E k \in DOMAIN commonPasswords : HasPrefix(s, Bytes(commonPasswords[k]))
    THEN CommonMsg ELSE ""

commonPasswordValidator(s) ==
    IF \E k \in DOMAIN commonPasswords : s = Bytes(commonPasswords[k])
    THEN CommonMsg ELSE ""

\* The loop of repeatingCharsValidator from index i on; reads is the set of
\* (0-based) byte indices the loop has evaluated so far.
RECURSIVE repeatingCharsScan(_, _, _)
repeatingCharsScan(s, i, reads) ==
    IF i < Len(s) THEN
        LET r1 == reads \cup {i, i - 1}
            r2 == r1 \cup {i - 2}
        IN  IF At(s, i) = At(s, i - 1)
            THEN IF At(s, i - 1) = At(s, i - 2)
                 THEN [msg |-> RepeatingMsg, reads |-> r2]
                 ELSE repeatingCharsScan(s, i + 1, r2)
            ELSE repeatingCharsScan(s, i + 1, r1)
    ELSE [msg |-> "", reads |-> reads]

repeatingCharsValidatorFromThree(s) == repeatingCharsScan(s, 3, {}).msg

repeatingCharsValidator(s) == repeatingCharsScan(s, 2, {}).msg

\* The byte indices repeatingCharsValidator reads on s.
repeatingCharsReads(s) == repeatingCharsScan(s, 2, {}).reads

ValidatorNames ==
    {"lengthValidator", "uppercaseValidator", "specialCharValidator",
     "digitValidator", "spaceValidator", "commonPasswordValidator",
     "repeatingCharsValidator"}

\* A value of type Validator applied to a password.
Validator(name, s) ==
    CASE name = "lengthValidator" -> lengthValidator(s)
      [] name = "uppercaseValidator" -> uppercaseValidator(s)
      [] name = "specialCharValidator" -> specialCharValidator(s)
      [] name = "digitValidator" -> digitValidator(s)
      [] name = "spaceValidator" -> spaceValidator(s)
      [] name = "commonPasswordValidator" -> commonPasswordValidator(s)
      [] name = "repeatingCharsValidator" -> repeatingCharsValidator(s)

(***************************************************************************)
(* validatePassword (part_000 lines 143-151).  The result carries, beside  *)
(* the returned slice, the number of validators the loop invoked.          *)
(***************************************************************************)
RECURSIVE validateLoop(_, _, _, _)
validateLoop(s, vs, i, errs) ==
    IF i > Len(vs) THEN [errors |-> errs, invoked |-> i - 1]
    ELSE LET err == Validator(vs[i], s)
         IN  validateLoop(s, vs, i + 1,
                          IF err # "" THEN Append(errs, err) ELSE errs)

RECURSIVE validateLoopFirstOnly(_, _, _, _)
validateLoopFirstOnly(s, vs, i, errs) ==
    IF i > Len(vs) THEN [errors |-> errs, invoked |-> i - 1]
    ELSE LET err == Validator(vs[i], s)
         IN  IF err # "" THEN [errors |-> Append(errs, err), invoked |-> i]
             ELSE validateLoopFirstOnly(s, vs, i + 1, errs)

RECURSIVE validateLoopOverwrite(_, _, _, _)
validateLoopOverwrite(s, vs, i, errs) ==
    IF i > Len(vs) THEN [errors |-> errs, invoked |-> i - 1]
    ELSE LET err == Validator(vs[i], s)
         IN  validateLoopOverwrite(s, vs, i + 1,
                                   IF err # "" THEN <<err>> ELSE errs)

validatePasswordFirstOnly(s, vs) == validateLoopFirstOnly(s, vs, 1, <<>>)

validatePasswordOverwrite(s, vs) == validateLoopOverwrite(s, vs, 1, <<>>)

validatePassword(s, vs) == validateLoop(s, vs, 1, <<>>)

\* The validators slice of main (part_000 lines 155-164).
mainValidators ==
    <<"lengthValidator", "uppercaseValidator", "specialCharValidator",
      "digitValidator", "spaceValidator", "commonPasswordValidator",
      "repeatingCharsValidator">>

(***************************************************************************)
(* Inputs.                                                                 *)
(***************************************************************************)
\* 'space', '!', '1', 'A', 'a', U+00E9, U+0663 (a digit), U+10410 (upper).
Alphabet == {32, 33, 49, 65, 97, 233, 1635, 66576}

Strings(n) == UNION {[1..k -> Alphabet] : k \in 0..n}

Run(c, n) == [i \in 1..n |-> c]

Literals ==
    {Lit_password, Lit_123456, Lit_qwerty, Lit_letmein, Lit_welcome,
     Lit_admin, Lit_abc123, Lit_password123, Lit_Password123Bang, Lit_aaa,
     Lit_short, Lit_longenough, Lit_PassSpace, Lit_Paaassword, Lit_eee,
     Lit_Deseret}

\* What can be typed: sequences of code points.
Typed ==
    Strings(MaxLen) \cup Literals \cup {Run(c, n) : c \in Alphabet, n \in 1..MaxRun}

PermTyped == Strings(MaxPermLen) \cup Literals

\* fmt.Scanln(&password) stores one space-delimited token ("" when the line
\* holds none), so what main reads holds no space.
isSpace(c) == c = 32

ScanlnTokens == {t \in Typed : ~ \E i \in DOMAIN t : isSpace(t[i])}

(***************************************************************************)
(* Spec: the password prompt loop of main (part_000 lines 153-184).        *)
(***************************************************************************)
MenuIdle == variant = 0 /\ x = 0 /\ choices = <<>> /\ trace = <<>>

Init ==
    /\ pc = "prompt"
    /\ password = <<>>
    /\ validators = mainValidators
    /\ errors = <<>>
    /\ invoked = 0
    /\ out = <<>>
    /\ MenuIdle

\* Lines 167-172: read the password and validate it.
ReadPassword ==
    /\ pc = "prompt"
    /\ \E t \in ScanlnTokens :
        LET r == validatePassword(Bytes(t), validators)
        IN  /\ password' = Bytes(t)
            /\ errors' = r.errors
            /\ invoked' = r.invoked
    /\ pc' = "check"
    /\ out' = <<>>
    /\ UNCHANGED <<validators, variant, x, choices, trace>>

\* Lines 174-176: no error, print and break.
PrintValid ==
    /\ pc = "check"
    /\ Len(errors) = 0
    /\ out' = <<ValidMsg>>
    /\ pc' = "done"
    /\ UNCHANGED <<password, validators, errors, invoked, variant, x, choices, trace>>

PrintErrorsThenBreak ==
    /\ pc = "check"
    /\ Len(errors) # 0
    /\ out' = errors
    /\ pc' = "done"
    /\ UNCHANGED <<password, validators, errors, invoked, variant, x, choices, trace>>

\* Lines 177-182: print every error message and go round the loop; password
\* and errors are declared inside the loop body, so the next round starts
\* with fresh ones.
PrintErrors ==
    /\ pc = "check"
    /\ Len(errors) # 0
    /\ out' = errors
    /\ pc' = "prompt"
    /\ password' = <<>>
    /\ errors' = <<>>
    /\ invoked' = 0
    /\ UNCHANGED <<validators, variant, x, choices, trace>>

Next == ReadPassword \/ PrintValid \/ PrintErrors

Spec == Init /\ [][Next]_vars

(***************************************************************************)
(* SpecValidate: validatePassword as a function of a password and a list   *)
(* of validators.  SpecPermute: the same call, the list drawn from the     *)
(* orderings of the seven validators of main.                              *)
(***************************************************************************)
ValidatorLists ==
    UNION {[1..k -> ValidatorNames] : k \in 0..MaxValidators} \cup {mainValidators}

RECURSIVE PermsOf(_)
PermsOf(S) ==
    IF S = {} THEN {<<>>}
    ELSE UNION {{<<e>> \o p : p \in PermsOf(S \ {e})} : e \in S}

InitValidate ==
    /\ pc = "call"
    /\ password \in {Bytes(t) : t \in Typed}
    /\ validators \in ValidatorLists
    /\ errors = <<>>
    /\ invoked = 0
    /\ out = <<>>
    /\ MenuIdle

InitPermute ==
    /\ pc = "call"
    /\ password \in {Bytes(t) : t \in PermTyped}
    /\ validators \in PermsOf(ValidatorNames)
    /\ errors = <<>>
    /\ invoked = 0
    /\ out = <<>>
    /\ MenuIdle

\* errors := validatePassword(password, validators)
Call ==
    /\ pc = "call"
    /\ LET r == validatePassword(password, validators)
       IN  /\ errors' = r.errors
           /\ invoked' = r.invoked
    /\ pc' = "returned"
    /\ UNCHANGED <<password, validators, out, variant, x, choices, trace>>

NextValidate == Call

SpecValidate == InitValidate /\ [][NextValidate]_vars

SpecPermute == InitPermute /\ [][NextValidate]_vars

(***************************************************************************)
(* SpecMenu: the menu loop.  variant 1 is src/main.go lines 23-44,         *)
(* variant 2 is part_000 lines 23-48 (it waits for Enter after a choice).  *)
(***************************************************************************)
\* The values fmt.Scan(&x) can leave in x (0 when the scan fails).
Choices == {-1, 0, 1, 2, 3, 4}

optionA == "Option A selected"
optionB == "Option B selected"
ExitedMsg == "Exited"
NotAnOptionMsg == "Not an option"

PasswordIdle ==
    /\ password = <<>> /\ validators = <<>> /\ errors = <<>>
    /\ invoked = 0 /\ out = <<>>

InitMenu ==
    /\ pc = "menu"
    /\ variant \in {1, 2}
    /\ x = 0
    /\ choices = <<>>
    /\ trace = <<>>
    /\ PasswordIdle

UnchangedPassword == UNCHANGED <<password, validators, errors, invoked, out>>

\* Where control goes after the switch, when the case did not return.
AfterSwitch == IF variant = 2 THEN "pressEnter" ELSE "menu"

\* var x int; the menu is printed; fmt.Scan(&x).
ReadChoice ==
    /\ pc = "menu"
    /\ Len(choices) < MaxChoices
    /\ \E v \in Choices :
        /\ x' = v
        /\ choices' = Append(choices, v)
    /\ pc' = "switch"
    /\ UNCHANGED <<variant, trace>>
    /\ UnchangedPassword

CaseOptionA ==
    /\ pc = "switch"
    /\ x = 1
    /\ trace' = Append(trace, optionA)
    /\ pc' = AfterSwitch
    /\ UNCHANGED <<variant, x, choices>>
    /\ UnchangedPassword

CaseOptionB ==
    /\ pc = "switch"
    /\ x = 2
    /\ trace' = Append(trace, optionB)
    /\ pc' = AfterSwitch
    /\ UNCHANGED <<variant, x, choices>>
    /\ UnchangedPassword

CaseExitBreak ==
    /\ pc = "switch"
    /\ x = 3
    /\ trace' = Append(trace, ExitedMsg)
    /\ pc' = AfterSwitch
    /\ UNCHANGED <<variant, x, choices>>
    /\ UnchangedPassword

\* case 3: print "Exited" and return from main.
CaseExit ==
    /\ pc = "switch"
    /\ x = 3
    /\ trace' = Append(trace, ExitedMsg)
    /\ pc' = "exited"
    /\ UNCHANGED <<variant, x, choices>>
    /\ UnchangedPassword

CaseDefault ==
    /\ pc = "switch"
    /\ x \notin {1, 2, 3}
    /\ trace' = Append(trace, NotAnOptionMsg)
    /\ pc' = AfterSwitch
    /\ UNCHANGED <<variant, x, choices>>
    /\ UnchangedPassword

\* "Press Enter to continue..." and fmt.Scanln() (variant 2 only).
PressEnter ==
    /\ pc = "pressEnter"
    /\ pc' = "menu"
    /\ UNCHANGED <<variant, x, choices, trace>>
    /\ UnchangedPassword

NextMenu ==
    \/ ReadChoice
    \/ CaseOptionA
    \/ CaseOptionB
    \/ CaseExit
    \/ CaseDefault
    \/ PressEnter

SpecMenu == InitMenu /\ [][NextMenu]_vars

(***************************************************************************)
(* Properties.                                                             *)
(***************************************************************************)
Range(f) == {f[i] : i \in DOMAIN f}

\* How often each element occurs in a sequence.
Multiplicities(f) ==
    [m \in Range(f) |-> Cardinality({i \in DOMAIN f : f[i] = m})]

\* The message each validator of the list yields on the password, by position.
Messages == [i \in DOMAIN validators |-> Validator(validators[i], password)]

\* Some code point occurs three times in a row.
HasRun3(rs) ==
    \E i \in 1..(Len(rs) - 2) : rs[i] = rs[i + 1] /\ rs[i + 1] = rs[i + 2]

\* C1: validatePassword invokes every validator of the list and returns
\* exactly the non-empty messages they produce, in the order of the list; the
\* result is empty iff every validator returned the empty message.
C1_CollectsAllInOrder ==
    pc = "returned" =>
        /\ invoked = Len(validators)
        /\ errors = SelectSeq(Messages, LAMBDA m : m # "")
        /\ (errors = <<>>) <=> (\A i \in DOMAIN Messages : Messages[i] = "")

C1_Witness ==
    /\ pc = "returned"
    /\ validators = mainValidators
    /\ Len(errors) >= 2
    /\ Len(errors) < Len(validators)
    /\ Messages[1] # ""

\* C2: for any ordering of the seven validators of main, the returned
\* diagnostics are those returned for main's own ordering, with the same
\* multiplicities; only their order may differ.
C2_OrderIndependent ==
    pc = "returned" =>
        Multiplicities(errors)
            = Multiplicities(validatePassword(password, mainValidators).errors)

C2_Witness ==
    /\ pc = "returned"
    /\ validators # mainValidators
    /\ Len(errors) >= 2
    /\ errors # validatePassword(password, mainValidators).errors

\* C3 (as stated): for every input shorter than 3 characters, validation with
\* the seven validators reads no index outside the string in
\* repeatingCharsValidator and yields no repeat diagnostic; for the empty
\* string the length, uppercase, special-character and digit validators each
\* contribute a diagnostic.
C3_ShortInputsAsStated ==
    (pc = "check" /\ Len(Runes(password)) < 3) =>
        /\ repeatingCharsReads(password) \subseteq 0..(Len(password) - 1)
        /\ RepeatingMsg \notin Range(errors)
        /\ password = <<>> =>
            {LengthMsg, UppercaseMsg, SpecialCharMsg, DigitMsg} \subseteq Range(errors)

\* C4 (as stated): repeatingCharsValidator returns its diagnostic iff some
\* character (code point) of the input occurs 3 or more times in a row.
C4_RepeatIffCodePointRun ==
    (pc = "returned" /\ validators = <<"repeatingCharsValidator">>) =>
        ((errors = <<RepeatingMsg>>) <=> HasRun3(Runes(password)))

C6_aaa ==
    (pc = "check" /\ password = Bytes(Lit_aaa)) =>
        errors = <<LengthMsg, UppercaseMsg, SpecialCharMsg, DigitMsg, RepeatingMsg>>

C6_Witness ==
    /\ pc = "check"
    /\ password = Bytes(Lit_aaa)
    /\ Len(errors) = 5
    /\ invoked = 7

\* C7: for "password" the seven validators yield exactly 4 diagnostics:
\* uppercase, special character, digit and common password; the length
\* (exactly 8), space and repeat-run validators contribute none.
C7_password ==
    (pc = "check" /\ password = Bytes(Lit_password)) =>
        errors = <<UppercaseMsg, SpecialCharMsg, DigitMsg, CommonMsg>>

C7_Witness ==
    /\ pc = "check"
    /\ password = Bytes(Lit_password)
    /\ Len(password) = MinLength
    /\ Len(errors) = 4

\* C8: for "Password123!" the seven validators yield the empty result, the
\* loop then prints "Password is valid!" and terminates; and the loop
\* terminates only on an input whose validation result is empty (otherwise
\* it goes round again).
C8_ValidTerminates ==
    /\ [](/\ (pc = "check" /\ password = Bytes(Lit_Password123Bang))
                => errors = <<>>
          /\ pc = "done" => (errors = <<>> /\ out = <<ValidMsg>>))
    /\ [][/\ (pc = "check" /\ errors = <<>>)
                => (pc' = "done" /\ out' = <<ValidMsg>>)
          /\ (pc = "check" /\ errors # <<>>) => pc' = "prompt"]_vars

C8_Witness ==
    /\ pc = "done"
    /\ password = Bytes(Lit_Password123Bang)
    /\ out = <<ValidMsg>>

Handled(v) ==
    CASE v = 1 -> optionA
      [] v = 2 -> optionB
      [] v = 3 -> ExitedMsg
      [] OTHER -> NotAnOptionMsg

\* C10: in both menu variants the program has terminated (having printed
\* "Exited") exactly when a choice equal to 3 has been handled; choice 1 calls
\* optionA, 2 calls optionB, any other integer prints "Not an option"; after
\* a non-exit choice the loop is back at (or on its way to) the menu prompt;
\* and no choice is read after the first 3.
C10_MenuLoop ==
    LET handled == IF pc = "switch" THEN Len(choices) - 1 ELSE Len(choices)
    IN  /\ Len(trace) = handled
        /\ \A i \in 1..handled : trace[i] = Handled(choices[i])
        /\ (pc = "exited") <=> (\E i \in 1..handled : choices[i] = 3)
        /\ pc = "exited" => (choices[Len(choices)] = 3 /\ trace[Len(trace)] = ExitedMsg)
        /\ \A i \in 1..(Len(choices) - 1) : choices[i] # 3
        /\ pc \in {"menu", "switch", "pressEnter", "exited"}
        /\ pc = "pressEnter" => variant = 2

C10_Witness ==
    /\ pc = "exited"
    /\ variant = 2
    /\ Len(choices) = 3
    /\ choices[1] = 1
    /\ choices[2] = 4

====
